---- MODULE Spec2Model ----
(***************************************************************************)
(* Model of generate_quarterly_data.py: the Q3 snapshot generator, the     *)
(* three per-record calculators (PD/LGD, IFRS 9 stage, ECL) and the Q3->Q4 *)
(* evolution engine.                                                       *)
(*                                                                         *)
(* Units.  Money is held in cents, PDs in 1e-6 (the stored 6 decimals),    *)
(* LGD in 1e-4 (the stored 4 decimals), ecl_rate in 1e-4 percent, credit   *)
(* scores before rounding in tenths of a point.  A uniform draw in [0,1)   *)
(* is held in thousandths.                                                 *)
(*                                                                         *)
(* A DataFrame is a sequence of rows (row i of the model is pandas index   *)
(* i-1); a row is a record whose fields are the columns present.  Frames   *)
(* live in `heap` and the program's names (df_q3, df_q4) hold references,  *)
(* so that in-place column assignment and DataFrame.copy() keep their      *)
(* Python meaning.                                                         *)
(***************************************************************************)
EXTENDS Integers, Sequences, FiniteSets, TLC

VARIABLES
    pc,                     \* position in __main__ / evolve_to_q4 / a direct call
    caller,                 \* who runs the calculators: "main", "evolve", "direct"
    heap,                   \* object store: Seq of DataFrames
    df_q3,                  \* reference held by the name df_q3 (0 = unbound)
    df_q4,                  \* reference held by the name df_q4 (0 = unbound)
    rng,                    \* state of the global np.random generator
    deterioration_indices,  \* local of evolve_to_q4
    improvement_indices,    \* local of evolve_to_q4
    newly_delinquent,       \* local of evolve_to_q4
    worsening_30,           \* local of evolve_to_q4
    worsening_60,           \* local of evolve_to_q4
    curing,                 \* local of evolve_to_q4
    q3_at_call,             \* history: the value of the frame df_q3 when evolve_to_q4 was entered
    rng_at_call,            \* history: the state of the generator when the running call was entered
    returned,               \* history: the calls of evolve_to_q4 that returned
    agent_pc,               \* position in autonomous_agent ("idle": not called)
    attempt,                \* local of autonomous_agent
    sql_query,              \* local of autonomous_agent: 0 unset, 1 generated, +1 per correction
    query_results,          \* local of autonomous_agent: None or the number of rows
    response,               \* local of autonomous_agent: the last answer of the LLM
    result,                 \* what autonomous_agent returned
    executed,               \* history: the client.query calls, in order
    fixes                   \* history: the answers to the fix requests, in order

vars == <<pc, caller, heap, df_q3, df_q4, rng, deterioration_indices,
          improvement_indices, newly_delinquent, worsening_30, worsening_60,
          curing, q3_at_call, rng_at_call, returned,
          agent_pc, attempt, sql_query, query_results, response, result,
          executed, fixes>>

pipeline_vars == <<pc, caller, heap, df_q3, df_q4, rng, deterioration_indices,
                   improvement_indices, newly_delinquent, worsening_30, worsening_60,
                   curing, q3_at_call, rng_at_call, returned>>

agent_vars == <<agent_pc, attempt, sql_query, query_results, response, result,
                executed, fixes>>

evolve_locals == <<deterioration_indices, improvement_indices, newly_delinquent,
                   worsening_30, worsening_60, curing>>

-----------------------------------------------------------------------------
(* Bounds of the model *)

\* n_loans of the scaled-down portfolio (the script uses 5000)
NLoans == 20

\* seeds 0..MaxSeed of the random source are explored
MaxSeed == 899

-----------------------------------------------------------------------------
(* Exact decimal arithmetic on 32-bit integers *)

Min(a, b) == IF a <= b THEN a ELSE b

Max(a, b) == IF a >= b THEN a ELSE b

\* <<q, r>> with a*b = q*d + r and 0 <= r < d, without forming a*b: long
\* multiplication by the decimal digits of b (needs 19*d and the quotient below 2^31)
RECURSIVE MulDiv(_, _, _)
MulDiv(a, b, d) ==
    IF b = 0 THEN <<0, 0>>
    ELSE LET h == MulDiv(a, b \div 10, d)
             t == (10 * h[2]) + ((b % 10) * (a % d))
         IN  <<(10 * h[1]) + ((b % 10) * (a \div d)) + (t \div d), t % d>>

\* round-half-to-even of q + r/d (numpy's rint, used by Series.round)
RoundHalfEven(q, r, d) ==
    IF 2 * r > d \/ (2 * r = d /\ (q % 2) = 1) THEN q + 1 ELSE q

\* round(a*b/d) to the nearest integer
MulDivRound(a, b, d) ==
    LET m == MulDiv(a, b, d) IN RoundHalfEven(m[1], m[2], d)

\* round(n/d) to the nearest integer, n >= 0
DivRound(n, d) == RoundHalfEven(n \div d, n % d, d)

-----------------------------------------------------------------------------
(* The random source.  np.random is one global generator, seeded once and  *)
(* advanced by every draw; it is modelled by a full-period 15-bit linear   *)
(* congruential generator.  Draw k of a vectorised call that starts in     *)
(* state s is read from Advance(s, k).                                     *)

LcgA == 25173

LcgC == 13849

LcgM == 32768

NextState(x) == (LcgA * x + LcgC) % LcgM

\* <<a, c>> with NextState applied k times to x being (a*x + c) % LcgM
RECURSIVE Steps(_)
Steps(k) ==
    IF k = 0 THEN <<1, 0>>
    ELSE LET h  == Steps(k \div 2)
             a2 == (h[1] * h[1]) % LcgM
             c2 == (h[1] * h[2] + h[2]) % LcgM
         IN  IF k % 2 = 0 THEN <<a2, c2>>
             ELSE <<(LcgA * a2) % LcgM, (LcgA * c2 + LcgC) % LcgM>>

\* the generator state after k draws from state x
Advance(x, k) == LET m == Steps(k) IN (m[1] * x + m[2]) % LcgM

\* a float in [0,1), in thousandths
Unit(x) == (x * 1000) \div LcgM

\* np.random.uniform(lo, hi) = lo + (hi - lo) * u, in thousandths of the unit of lo, hi
Uniform(lo, hi, x) == (lo * 1000) + ((hi - lo) * Unit(x))

\* an index in 1..n
UniformIndex(n, x) == ((x * n) \div LcgM) + 1

\* np.random.choice(values, p = ...): cum holds the cumulative probabilities in thousandths
RECURSIVE ChoiceP(_, _, _, _)
ChoiceP(values, cum, x, i) ==
    IF i = Len(values) \/ Unit(x) < cum[i] THEN values[i]
    ELSE ChoiceP(values, cum, x, i + 1)

RemoveAt(s, i) == SubSeq(s, 1, i - 1) \o SubSeq(s, i + 1, Len(s))

\* np.random.choice(pool, size = size, replace = False) for size <= Len(pool):
\* the selected elements in selection order; consumes `size` draws
RECURSIVE ChoiceNoReplace(_, _, _)
ChoiceNoReplace(pool, size, x) ==
    IF size = 0 THEN <<>>
    ELSE LET x1 == NextState(x)
             i  == UniformIndex(Len(pool), x1)
         IN  <<pool[i]>> \o ChoiceNoReplace(RemoveAt(pool, i), size - 1, x1)

\* int(n * num/den) for a fraction num/den: the size of a selection
IntFraction(n, num, den) == (n * num) \div den

Range(s) == {s[i] : i \in DOMAIN s}

-----------------------------------------------------------------------------
(* calculate_pd_lgd *)

ProductTypes == <<"Mortgage", "Personal Loan", "Auto Loan", "Credit Card", "SME Loan">>

\* base_pd with the values of the 700 and 650 buckets exchanged
base_pd_swapped(credit_score_current) ==
    IF credit_score_current >= 750 THEN 5000
    ELSE IF credit_score_current >= 700 THEN 25000
    ELSE IF credit_score_current >= 650 THEN 10000
    ELSE IF credit_score_current >= 600 THEN 50000
    ELSE 100000

\* base_pd with the bucket tests written as strict comparisons
base_pd_strict(credit_score_current) ==
    IF credit_score_current > 750 THEN 5000
    ELSE IF credit_score_current > 700 THEN 10000
    ELSE IF credit_score_current > 650 THEN 25000
    ELSE IF credit_score_current > 600 THEN 50000
    ELSE 100000

\* base_pd in 1e-6
base_pd(credit_score_current) ==
    IF credit_score_current >= 750 THEN 5000
    ELSE IF credit_score_current >= 700 THEN 10000
    ELSE IF credit_score_current >= 650 THEN 25000
    ELSE IF credit_score_current >= 600 THEN 50000
    ELSE 100000

dpd_multiplier(days_past_due) ==
    IF days_past_due = 0 THEN 1
    ELSE IF days_past_due <= 30 THEN 2
    ELSE IF days_past_due <= 90 THEN 4
    ELSE 8

\* product_adj.get(product_type, 1.0), in tenths
product_adj(product_type) ==
    CASE product_type = "Mortgage"      -> 7
      [] product_type = "Auto Loan"     -> 9
      [] product_type = "Personal Loan" -> 12
      [] product_type = "Credit Card"   -> 15
      [] product_type = "SME Loan"      -> 13
      [] OTHER                          -> 10

\* the unrounded 12-month PD, in 1e-7
calculate_12m_pd(row) ==
    Min(base_pd(row.credit_score_current) * dpd_multiplier(row.days_past_due)
            * product_adj(row.product_type),
        10000000)

\* calculate_lifetime_pd without the cap at 1.0
calculate_lifetime_pd_uncapped(pd_12m_raw) == pd_12m_raw * 3

\* the unrounded lifetime PD in 1e-7, from the unrounded pd_12m column
calculate_lifetime_pd(pd_12m_raw) == Min(pd_12m_raw * 3, 10000000)

\* Series.round(6) of a PD held in 1e-7
RoundPd(raw) == DivRound(raw, 10)

\* the bounds of the LGD range of each known product, in 1e-4, in the order
\* the dict literal draws them
LgdProducts == <<"Mortgage", "Auto Loan", "Personal Loan", "Credit Card", "SME Loan">>

LgdLow == <<1500, 2500, 5000, 6000, 4000>>

LgdHigh == <<3000, 4000, 7000, 8000, 6000>>

\* calculate_lgd that gives every known product the draw of the first entry
calculate_lgd_first_draw(row, x) ==
    IF row.product_type \in Range(LgdProducts)
    THEN DivRound(Uniform(LgdLow[1], LgdHigh[1], Advance(x, 1)), 1000)
    ELSE 5000

\* lgd_by_product.get(product_type, 0.50) after .round(4), in 1e-4.  Building the
\* dict draws five uniforms, one per product, whatever the row's product is:
\* the row keeps the draw of its own product.
calculate_lgd(row, x) ==
    LET known == {k \in 1..5 : LgdProducts[k] = row.product_type}
    IN  IF known = {} THEN 5000
        ELSE LET k == CHOOSE j \in known : TRUE
             IN  DivRound(Uniform(LgdLow[k], LgdHigh[k], Advance(x, k)), 1000)

\* calculate_pd_lgd that keeps the PD and LGD columns a row already carries
PdLgdRow_carried(row, x) ==
    LET raw == calculate_12m_pd(row)
    IN  row @@ [pd_12m      |-> RoundPd(raw),
                pd_lifetime |-> RoundPd(calculate_lifetime_pd(raw)),
                lgd         |-> calculate_lgd(row, x)]

\* one row after calculate_pd_lgd; x is the generator state before the row's LGD draws
PdLgdRow(row, x) ==
    LET raw == calculate_12m_pd(row)
    IN  [pd_12m      |-> RoundPd(raw),
         pd_lifetime |-> RoundPd(calculate_lifetime_pd(raw)),
         lgd         |-> calculate_lgd(row, x)] @@ row

calculate_pd_lgd(df, x) ==
    [i \in 1..Len(df) |-> PdLgdRow(df[i], Advance(x, 5 * (i - 1)))]

-----------------------------------------------------------------------------
(* assign_ifrs9_stage *)

\* determine_stage with the score-drop test written >= 100
determine_stage_drop_ge(row) ==
    IF row.days_past_due > 90 THEN 3
    ELSE LET credit_score_drop == row.credit_score_origination - row.credit_score_current
             pd_increase       == row.pd_12m > 30000
         IN  IF row.days_past_due >= 30 \/ credit_score_drop >= 100 \/ pd_increase
             THEN 2 ELSE 1

\* determine_stage with the Stage 2 test placed before the Stage 3 test
determine_stage_stage2_first(row) ==
    LET credit_score_drop == row.credit_score_origination - row.credit_score_current
        pd_increase       == row.pd_12m > 30000
    IN  IF row.days_past_due >= 30 \/ credit_score_drop > 100 \/ pd_increase THEN 2
        ELSE IF row.days_past_due > 90 THEN 3
        ELSE 1

determine_stage(row) ==
    IF row.days_past_due > 90 THEN 3
    ELSE LET credit_score_drop == row.credit_score_origination - row.credit_score_current
             pd_increase       == row.pd_12m > 30000
         IN  IF row.days_past_due >= 30 \/ credit_score_drop > 100 \/ pd_increase
             THEN 2 ELSE 1

\* assign_ifrs9_stage with a stage floor: a loan keeps the stage the frame
\* already holds for it when that stage is the higher one
assign_ifrs9_stage_floor(df) ==
    [i \in 1..Len(df) |->
        [ifrs9_stage |-> IF "ifrs9_stage" \in DOMAIN df[i]
                         THEN Max(df[i].ifrs9_stage, determine_stage(df[i]))
                         ELSE determine_stage(df[i])] @@ df[i]]

assign_ifrs9_stage(df) ==
    [i \in 1..Len(df) |-> [ifrs9_stage |-> determine_stage(df[i])] @@ df[i]]

-----------------------------------------------------------------------------
(* calculate_ecl *)

\* the value of a float column that holds 0/0
NaN == -1

\* round(ead * pd * lgd, 2) in cents: ead in cents, pd in 1e-6, lgd in 1e-4
EclCents(ead, pd, lgd) ==
    LET a == MulDiv(ead, pd, 1000000)
        b == MulDiv(a[1], lgd, 10000)
        c == MulDiv(a[2], lgd, 1000000)
        t == b[2] + c[1]
        q == b[1] + (t \div 10000)
        f == t % 10000
    IN  IF f > 5000 \/ (f = 5000 /\ (c[2] > 0 \/ (q % 2) = 1)) THEN q + 1 ELSE q

\* calc_ecl that takes the 12-month PD in every stage
calc_ecl_always_12m(row) == EclCents(row.outstanding_balance, row.pd_12m, row.lgd)

calc_ecl(row) ==
    LET ead == row.outstanding_balance
    IN  IF row.ifrs9_stage = 1
        THEN EclCents(ead, row.pd_12m, row.lgd)
        ELSE EclCents(ead, row.pd_lifetime, row.lgd)

\* (ecl_amount / outstanding_balance * 100).round(4), in 1e-4 percent; pandas
\* float division does not raise on a zero divisor: 0/0 is NaN
EclRate(ecl_amount, outstanding_balance) ==
    IF outstanding_balance = 0 THEN NaN
    ELSE MulDivRound(ecl_amount, 1000000, outstanding_balance)

EclRow(row) ==
    LET ecl_amount == calc_ecl(row)
    IN  [ecl_amount |-> ecl_amount,
         ecl_rate   |-> EclRate(ecl_amount, row.outstanding_balance)] @@ row

calculate_ecl(df) == [i \in 1..Len(df) |-> EclRow(df[i])]

-----------------------------------------------------------------------------
(* generate_base_portfolio.  Each continuous distribution is represented by *)
(* a table of sample points, indexed by the draw.                           *)

REPORTING_Q3 == "2024-09-30"

REPORTING_Q4 == "2024-12-31"

ProductCum == <<350, 600, 800, 950, 1000>>

\* np.random.lognormal(mu, sigma) per product, in cents, in the order of ProductTypes
LognormalPoints ==
    <<<<12675356, 26833729, 56807004>>,
      <<543166, 1335973, 3285963>>,
      <<1631761, 2973262, 5417636>>,
      <<232157, 491477, 1040457>>,
      <<3454437, 9871577, 28209523>>>>

ProductIndex(product) == CHOOSE k \in 1..Len(ProductTypes) : ProductTypes[k] = product

original_amount_of(product, x) ==
    LET pts == LognormalPoints[ProductIndex(product)]
    IN  pts[UniformIndex(Len(pts), x)]

\* np.random.randint(365, 1825)
days_ago_of(x) == 365 + (UniformIndex(1460, x) - 1)

\* original_amount * max(0.3, 1 - months_elapsed/60) * uniform(0.85, 1.0), in cents
outstanding_balance_of(original_amount, days_ago, x) ==
    LET amortised == MulDivRound(original_amount, Max(540, 1800 - days_ago), 1800)
    IN  MulDivRound(amortised, Uniform(850, 1000, x), 1000000)

\* np.random.normal(680, 80).clip(300, 850), in tenths of a point
ScoreOrigPoints ==
    <<3000, 5204, 5996, 6004, 6400, 6496, 6500, 6800,
      6994, 7000, 7300, 7495, 7500, 7600, 8100, 8500>>

\* np.random.normal(0, 25), in tenths of a point
ScoreChangePoints ==
    <<-1100, -1006, -1000, -400, -250, -104, -46, 0,
      0, 0, 5, 45, 100, 250, 400, 1000>>

credit_score_orig_of(x) == ScoreOrigPoints[UniformIndex(Len(ScoreOrigPoints), x)]

credit_score_current_of(score, x) ==
    Max(3000, Min(8500, score + ScoreChangePoints[UniformIndex(Len(ScoreChangePoints), x)]))

\* Series.round(0).astype(int) of a score held in tenths
RoundScore(tenths) == DivRound(tenths, 10)

DpdBuckets == <<0, 30, 60, 90, 120, 180>>

DpdCum == <<870, 940, 970, 985, 995, 1000>>

\* base_rate per product in percent, in the order of ProductTypes
BaseRate == <<45, 90, 65, 180, 75>>

\* max(2.0, base_rate + (750 - score)/100*0.5 + uniform(-0.5, 0.5)).round(2), in 1e-2 percent
interest_rate_of(product, score, x) ==
    DivRound(Max(20000, BaseRate[ProductIndex(product)] * 1000 + (7500 - score) * 5
                            - 5000 + 10 * Unit(x)),
             100)

Sectors == <<"Retail", "Manufacturing", "Services", "Construction", "Technology", "Healthcare">>

Regions == <<"North", "South", "East", "West", "Central">>

RegionCum == <<250, 450, 650, 850, 1000>>

LoanId(i) == i

\* The draws are vectorised per column: with n loans, column c of the model
\* reads its i-th value from draw (c-1)*n + i.  The sector draws come ninth
\* and only the SME loans make one; the geography draws follow them.
generate_base_portfolio(n, x) ==
    LET product(i)  == ChoiceP(ProductTypes, ProductCum, Advance(x, i), 1)
        days(i)     == days_ago_of(Advance(x, n + i))
        amount(i)   == original_amount_of(product(i), Advance(x, 2 * n + i))
        balance(i)  == outstanding_balance_of(amount(i), days(i), Advance(x, 3 * n + i))
        orig(i)     == credit_score_orig_of(Advance(x, 4 * n + i))
        current(i)  == credit_score_current_of(orig(i), Advance(x, 5 * n + i))
        dpd(i)      == ChoiceP(DpdBuckets, DpdCum, Advance(x, 6 * n + i), 1)
        rate(i)     == interest_rate_of(product(i), orig(i), Advance(x, 7 * n + i))
        sme(i)      == Cardinality({j \in 1..i : product(j) = "SME Loan"})
        sector(i)   == IF product(i) = "SME Loan"
                       THEN Sectors[UniformIndex(Len(Sectors), Advance(x, 8 * n + sme(i)))]
                       ELSE "N/A"
        region(i)   == ChoiceP(Regions, RegionCum, Advance(x, 8 * n + sme(n) + i), 1)
    IN  [i \in 1..n |->
            [loan_id                  |-> LoanId(i),
             reporting_date           |-> REPORTING_Q3,
             product_type             |-> product(i),
             origination_date         |-> 0 - days(i),
             original_amount          |-> amount(i),
             outstanding_balance      |-> balance(i),
             credit_score_origination |-> RoundScore(orig(i)),
             credit_score_current     |-> RoundScore(current(i)),
             days_past_due            |-> dpd(i),
             interest_rate            |-> rate(i),
             industry_sector          |-> sector(i),
             geography                |-> region(i)]]

\* the number of draws generate_base_portfolio(n, x) consumes
GenerateDraws(n, x) ==
    LET df == generate_base_portfolio(n, x)
    IN  9 * n + Cardinality({i \in 1..n : df[i].product_type = "SME Loan"})

-----------------------------------------------------------------------------
(* evolve_to_q4, pass by pass *)

\* df_q4 = df_q3 without .copy(): the same frame under a second name
DataFrameCopy_alias(h, ref) == <<h, ref>>

\* df_q3.copy(): a new frame with the same contents; <<heap, reference>>
DataFrameCopy(h, ref) == <<Append(h, h[ref]), Len(h) + 1>>

SetReportingDate(df, date) == [i \in 1..Len(df) |-> [df[i] EXCEPT !.reporting_date = date]]

\* outstanding_balance * uniform(0.96, 0.99): the unrounded product of a balance
\* in cents, as [cents, frac] with frac in 1e-6 cent
\* the factor taken from a generator the seed does not reset: its state moves
\* with every frame the program has allocated
AmortizedBalance_unseeded(outstanding_balance, x) ==
    LET m == MulDiv(outstanding_balance, Uniform(960, 990, Advance(x, Len(heap))), 1000000)
    IN  [cents |-> m[1], frac |-> m[2]]

AmortizedBalance(outstanding_balance, x) ==
    LET m == MulDiv(outstanding_balance, Uniform(960, 990, x), 1000000)
    IN  [cents |-> m[1], frac |-> m[2]]

Amortize(df, x) ==
    [i \in 1..Len(df) |->
        [df[i] EXCEPT !.outstanding_balance = AmortizedBalance(@, Advance(x, i))]]

\* the pandas index of a frame, and the labels of the rows that satisfy a filter
IndexOf(df) == [i \in 1..Len(df) |-> i]

\* the labels of a set, in index order
Ascending(labels) ==
    [k \in 1..Cardinality(labels) |->
        CHOOSE i \in labels : Cardinality({j \in labels : j < i}) = k - 1]

\* df[mask].index, the mask a boolean per row
Filter(df, mask) == Ascending({i \in 1..Len(df) : mask[i]})

\* [i for i in index if i not in excluded]
Without(index, excluded) == Ascending(Range(index) \ Range(excluded))

\* the position of a label in a selection without repeats
PositionOf(indices, idx) == CHOOSE k \in 1..Len(indices) : indices[k] = idx

\* the deterioration without the floor of 300
DeterioratedScore_unclamped(score, x) ==
    (score * 1000 + Uniform(-25, -5, x)) \div 1000

\* int(max(300, score + uniform(-25, -5)))
DeterioratedScore(score, x) ==
    Max(300000, score * 1000 + Uniform(-25, -5, x)) \div 1000

\* int(min(850, score + uniform(5, 20)))
ImprovedScore(score, x) ==
    Min(850000, score * 1000 + Uniform(5, 20, x)) \div 1000

\* for idx in deterioration_indices: df.at[idx, 'credit_score_current'] = ...;
\* the k-th iteration reads draw k after state x (the indices come from a
\* selection without replacement: no label repeats)
Deteriorate(df, indices, x) ==
    [i \in 1..Len(df) |->
        IF i \in Range(indices)
        THEN [df[i] EXCEPT !.credit_score_current =
                               DeterioratedScore(@, Advance(x, PositionOf(indices, i)))]
        ELSE df[i]]

\* the improvement written by position (iat) instead of by label (at): the
\* k-th selected label changes the k-th row
Improve_positional(df, indices, x) ==
    [i \in 1..Len(df) |->
        IF i \in 1..Len(indices)
        THEN [df[i] EXCEPT !.credit_score_current =
                               ImprovedScore(@, Advance(x, i))]
        ELSE df[i]]

\* for idx in improvement_indices: df.at[idx, 'credit_score_current'] = ...
Improve(df, indices, x) ==
    [i \in 1..Len(df) |->
        IF i \in Range(indices)
        THEN [df[i] EXCEPT !.credit_score_current =
                               ImprovedScore(@, Advance(x, PositionOf(indices, i)))]
        ELSE df[i]]

\* for idx in indices: df.at[idx, 'days_past_due'] = np.random.choice(targets, p = [p1, 1 - p1])
\* the k-th iteration reads draw k after state x
SetDpd(df, indices, targets, cum, x) ==
    [i \in 1..Len(df) |->
        IF i \in Range(indices)
        THEN [df[i] EXCEPT !.days_past_due =
                               ChoiceP(targets, cum, Advance(x, PositionOf(indices, i)), 1)]
        ELSE df[i]]

\* curing that makes every selected loan current
CuredDpd_full(current_dpd) == 0

\* curing that clears every arrear of 90 days or more
CuredDpd_paid_off(current_dpd) ==
    IF current_dpd = 30 THEN 0
    ELSE IF current_dpd = 60 THEN 30
    ELSE IF current_dpd >= 90 THEN 0
    ELSE current_dpd

CuredDpd(current_dpd) ==
    IF current_dpd = 30 THEN 0
    ELSE IF current_dpd = 60 THEN 30
    ELSE IF current_dpd >= 90 THEN 60
    ELSE current_dpd

\* curing that drops the fully cured loans from the frame
Cure_dropping(df, indices) ==
    SelectSeq([i \in 1..Len(df) |->
                  IF i \in Range(indices)
                  THEN [df[i] EXCEPT !.days_past_due = CuredDpd(@)]
                  ELSE df[i]],
              LAMBDA row : row.days_past_due > 0 \/ row.loan_id \notin Range(indices))

Cure(df, indices) ==
    [i \in 1..Len(df) |->
        IF i \in Range(indices)
        THEN [df[i] EXCEPT !.days_past_due = CuredDpd(@)]
        ELSE df[i]]

\* df['days_past_due'] == 0 and the other masks of the DPD changes
IsCurrent(df) == [i \in 1..Len(df) |-> df[i].days_past_due = 0]

\* the mask of step (b) taken from the input snapshot instead of the frame
IsDpd30_input(df) == [i \in 1..Len(df) |-> q3_at_call[i].days_past_due = 30]

IsDpd30(df) == [i \in 1..Len(df) |-> df[i].days_past_due = 30]

IsDpd60(df) == [i \in 1..Len(df) |-> df[i].days_past_due = 60]

IsDelinquent(df) == [i \in 1..Len(df) |-> df[i].days_past_due > 0]

\* the rounding with the balances cut to whole cents instead of rounded
RoundColumns_truncating(df) ==
    [i \in 1..Len(df) |->
        [df[i] EXCEPT
            !.credit_score_current = RoundScore(@ * 10),
            !.outstanding_balance  = @.cents]]

\* the rounding of the two mutated columns before the recalculation
RoundColumns(df) ==
    [i \in 1..Len(df) |->
        [df[i] EXCEPT
            !.credit_score_current = RoundScore(@ * 10),
            !.outstanding_balance  = RoundHalfEven(@.cents, @.frac, 1000000)]]

-----------------------------------------------------------------------------
(* autonomous_agent: the question is turned into SQL by the LLM, the SQL is
   run on BigQuery with a correction loop, the rows are sent for analysis *)

\* the rows a query may return are 0..MaxRows
MaxRows == 2

max_attempts == 3

\* query_results = None
None == -1

\* what requests.post can give back: a status code and a body that is JSON
\* with candidates, other JSON, or not JSON at all
Responses == [status_code : {200, 429, 500}, json : {"candidates", "other", "invalid"}]

\* requests.post raised instead of returning a response
ConnectionError == [status_code |-> 0, json |-> "invalid"]

PostOutcomes == Responses \cup {ConnectionError}

\* no response was received yet
NoResponse == [status_code |-> 0, json |-> "other"]

\* what client.query(sql_query).to_dataframe() can do: raise, or return rows
QueryFailed == -2

QueryOutcomes == {QueryFailed} \cup (0..MaxRows)

\* the function has not been called
AgentNotCalled ==
    /\ agent_pc = "idle"
    /\ attempt = 0
    /\ sql_query = 0
    /\ query_results = None
    /\ response = NoResponse
    /\ result = "running"
    /\ executed = <<>>
    /\ fixes = <<>>

\* return value
AgentReturn(value) ==
    /\ agent_pc' = "returned"
    /\ result' = value

\* an exception leaves the function
AgentRaise ==
    /\ agent_pc' = "raised"
    /\ result' = "exception"

\* the retry test that also lets the last attempt ask for a correction
CanRetry_last_too(a) == a <= max_attempts

\* if attempt < max_attempts
CanRetry(a) == a < max_attempts

\* response = requests.post(...) of the SQL prompt
PostSqlPrompt ==
    /\ agent_pc = "generate_sql"
    /\ \E o \in PostOutcomes :
          IF o = ConnectionError
          THEN /\ AgentRaise
               /\ UNCHANGED response
          ELSE /\ response' = o
               /\ agent_pc' = IF o.status_code = 429 THEN "sql_rate_limited" ELSE "sql_extract"
               /\ UNCHANGED result
    /\ UNCHANGED <<attempt, sql_query, query_results, executed, fixes>>
    /\ UNCHANGED pipeline_vars

\* status 429: sleep 60 seconds and post the SQL prompt once more
RetrySqlPrompt ==
    /\ agent_pc = "sql_rate_limited"
    /\ \E o \in PostOutcomes :
          IF o = ConnectionError
          THEN /\ AgentRaise
               /\ UNCHANGED response
          ELSE /\ response' = o
               /\ agent_pc' = "sql_extract"
               /\ UNCHANGED result
    /\ UNCHANGED <<attempt, sql_query, query_results, executed, fixes>>
    /\ UNCHANGED pipeline_vars

\* the status test, the extraction of the SQL, and the three locals of the loop
ExtractSql ==
    /\ agent_pc = "sql_extract"
    /\ IF response.status_code # 200
       THEN /\ IF response.json = "invalid" THEN AgentRaise ELSE AgentReturn("None")
            /\ UNCHANGED <<attempt, sql_query, query_results>>
       ELSE IF response.json = "candidates"
       THEN /\ sql_query' = 1
            /\ attempt' = 1
            /\ query_results' = None
            /\ agent_pc' = "while"
            /\ UNCHANGED result
       ELSE /\ AgentRaise
            /\ UNCHANGED <<attempt, sql_query, query_results>>
    /\ UNCHANGED <<response, executed, fixes>>
    /\ UNCHANGED pipeline_vars

\* while attempt <= max_attempts
WhileAttempt ==
    /\ agent_pc = "while"
    /\ agent_pc' = IF attempt <= max_attempts THEN "execute" ELSE "check_results"
    /\ UNCHANGED <<attempt, sql_query, query_results, response, result, executed, fixes>>
    /\ UNCHANGED pipeline_vars

\* try: query_results = client.query(sql_query).to_dataframe(); break
\* except: the retry test, and the return after the last attempt
ExecuteQuery ==
    /\ agent_pc = "execute"
    /\ \E outcome \in QueryOutcomes :
          /\ executed' = Append(executed, [sql_query |-> sql_query, attempt |-> attempt,
                                           outcome |-> outcome])
          /\ IF outcome # QueryFailed
             THEN /\ query_results' = outcome
                  /\ agent_pc' = "check_results"
                  /\ UNCHANGED result
             ELSE /\ UNCHANGED query_results
                  /\ IF CanRetry(attempt)
                     THEN /\ agent_pc' = "fix"
                          /\ UNCHANGED result
                     ELSE AgentReturn("None")
    /\ UNCHANGED <<attempt, sql_query, response, fixes>>
    /\ UNCHANGED pipeline_vars

\* the fix prompt: sleep 3 seconds, post, take the corrected SQL on status 200
AskFix ==
    /\ agent_pc = "fix"
    /\ \E o \in PostOutcomes :
          /\ fixes' = Append(fixes, o)
          /\ IF o = ConnectionError
             THEN /\ AgentRaise
                  /\ UNCHANGED <<response, sql_query, attempt>>
             ELSE /\ response' = o
                  /\ IF o.status_code = 200
                     THEN IF o.json = "candidates"
                          THEN /\ sql_query' = sql_query + 1
                               /\ attempt' = attempt + 1
                               /\ agent_pc' = "while"
                               /\ UNCHANGED result
                          ELSE /\ AgentRaise
                               /\ UNCHANGED <<sql_query, attempt>>
                     ELSE /\ AgentReturn("None")
                          /\ UNCHANGED <<sql_query, attempt>>
    /\ UNCHANGED <<query_results, executed>>
    /\ UNCHANGED pipeline_vars

\* if query_results is None or len(query_results) == 0: return None
CheckResults ==
    /\ agent_pc = "check_results"
    /\ IF query_results = None \/ query_results = 0
       THEN AgentReturn("None")
       ELSE /\ agent_pc' = "analyze"
            /\ UNCHANGED result
    /\ UNCHANGED <<attempt, sql_query, query_results, response, executed, fixes>>
    /\ UNCHANGED pipeline_vars

\* sleep 3 seconds and post the analysis prompt
PostAnalysisPrompt ==
    /\ agent_pc = "analyze"
    /\ \E o \in PostOutcomes :
          IF o = ConnectionError
          THEN /\ AgentRaise
               /\ UNCHANGED response
          ELSE /\ response' = o
               /\ agent_pc' = IF o.status_code = 429 THEN "analysis_rate_limited"
                              ELSE "insights"
               /\ UNCHANGED result
    /\ UNCHANGED <<attempt, sql_query, query_results, executed, fixes>>
    /\ UNCHANGED pipeline_vars

\* status 429: sleep 60 seconds and post the analysis prompt once more
RetryAnalysisPrompt ==
    /\ agent_pc = "analysis_rate_limited"
    /\ \E o \in PostOutcomes :
          IF o = ConnectionError
          THEN /\ AgentRaise
               /\ UNCHANGED response
          ELSE /\ response' = o
               /\ agent_pc' = "insights"
               /\ UNCHANGED result
    /\ UNCHANGED <<attempt, sql_query, query_results, executed, fixes>>
    /\ UNCHANGED pipeline_vars

\* the dict with the question, the SQL, the data and the insights, or None
ReturnInsights ==
    /\ agent_pc = "insights"
    /\ IF response.status_code = 200
       THEN IF response.json = "candidates" THEN AgentReturn("dict") ELSE AgentRaise
       ELSE IF response.json = "invalid" THEN AgentRaise ELSE AgentReturn("None")
    /\ UNCHANGED <<attempt, sql_query, query_results, response, executed, fixes>>
    /\ UNCHANGED pipeline_vars

\* the tables exist; the pipeline is not running
InitAgent ==
    /\ agent_pc = "generate_sql"
    /\ attempt = 0
    /\ sql_query = 0
    /\ query_results = None
    /\ response = NoResponse
    /\ result = "running"
    /\ executed = <<>>
    /\ fixes = <<>>
    /\ pc = "done"
    /\ caller = "main"
    /\ heap = <<>>
    /\ df_q3 = 0
    /\ df_q4 = 0
    /\ rng = 0
    /\ deterioration_indices = <<>>
    /\ improvement_indices = <<>>
    /\ newly_delinquent = <<>>
    /\ worsening_30 = <<>>
    /\ worsening_60 = <<>>
    /\ curing = <<>>
    /\ q3_at_call = <<>>
    /\ rng_at_call = 0
    /\ returned = <<>>

NextAgent ==
    \/ PostSqlPrompt
    \/ RetrySqlPrompt
    \/ ExtractSql
    \/ WhileAttempt
    \/ ExecuteQuery
    \/ AskFix
    \/ CheckResults
    \/ PostAnalysisPrompt
    \/ RetryAnalysisPrompt
    \/ ReturnInsights

\* the function is sequential code: a step that can be taken is taken
SpecAgent == InitAgent /\ [][NextAgent]_vars /\ WF_vars(NextAgent)

-----------------------------------------------------------------------------
(* The steps of the program *)

\* the frame the calculators are working on
Target == IF caller = "evolve" THEN df_q4 ELSE df_q3

\* a sampler that also rejects an empty pool
CanSample_nonempty(pool, size) == Len(pool) > 0 /\ size <= Len(pool)

\* np.random.choice(..., replace = False) raises ValueError when size exceeds the pool
CanSample(pool, size) == size <= Len(pool)

\* __main__: df_q3 = generate_base_portfolio(n_loans = ..., ...)
GenerateBasePortfolioOf(n_loans) ==
    /\ pc = "generate"
    /\ heap' = Append(heap, generate_base_portfolio(n_loans, rng))
    /\ df_q3' = Len(heap) + 1
    /\ rng' = Advance(rng, GenerateDraws(n_loans, rng))
    /\ pc' = "pd_lgd"
    /\ UNCHANGED <<caller, df_q4, evolve_locals, q3_at_call, rng_at_call, returned>>
    /\ UNCHANGED agent_vars

GenerateBasePortfolio == GenerateBasePortfolioOf(NLoans)

\* df = calculate_pd_lgd(df): the columns are written into the frame passed in
CalculatePdLgd ==
    /\ pc = "pd_lgd"
    /\ heap' = [heap EXCEPT ![Target] = calculate_pd_lgd(@, rng)]
    /\ rng' = Advance(rng, 5 * Len(heap[Target]))
    /\ pc' = "stage"
    /\ UNCHANGED <<caller, df_q3, df_q4, evolve_locals, q3_at_call, rng_at_call, returned>>
    /\ UNCHANGED agent_vars

\* df = assign_ifrs9_stage(df)
AssignIfrs9Stage ==
    /\ pc = "stage"
    /\ heap' = [heap EXCEPT ![Target] = assign_ifrs9_stage(@)]
    /\ pc' = "ecl"
    /\ UNCHANGED <<caller, df_q3, df_q4, rng, evolve_locals, q3_at_call, rng_at_call, returned>>
    /\ UNCHANGED agent_vars

\* df = calculate_ecl(df); in __main__ the call of evolve_to_q4 follows, in
\* evolve_to_q4 the return of df_q4
CalculateEcl ==
    /\ pc = "ecl"
    /\ heap' = [heap EXCEPT ![Target] = calculate_ecl(@)]
    /\ pc' = IF caller = "main" THEN "evolve_copy" ELSE "done"
    /\ returned' = IF caller = "evolve"
                   THEN Append(returned, [seeded |-> rng_at_call,
                                          input  |-> q3_at_call,
                                          output |-> heap'[df_q4]])
                   ELSE returned
    /\ UNCHANGED <<caller, df_q3, df_q4, rng, evolve_locals, q3_at_call, rng_at_call>>
    /\ UNCHANGED agent_vars

\* evolve_to_q4: df_q4 = df_q3.copy(); df_q4['reporting_date'] = ...
EvolveCopy ==
    /\ pc = "evolve_copy"
    /\ LET c == DataFrameCopy(heap, df_q3)
       IN  /\ heap' = [c[1] EXCEPT ![c[2]] = SetReportingDate(@, REPORTING_Q4)]
           /\ df_q4' = c[2]
    /\ q3_at_call' = heap[df_q3]
    /\ caller' = "evolve"
    /\ pc' = "amortize"
    /\ rng_at_call' = rng
    /\ UNCHANGED <<df_q3, rng, evolve_locals, returned>>
    /\ UNCHANGED agent_vars

\* 1. balance reduction
EvolveAmortize ==
    /\ pc = "amortize"
    /\ heap' = [heap EXCEPT ![df_q4] = Amortize(@, rng)]
    /\ rng' = Advance(rng, Len(heap[df_q4]))
    /\ pc' = "select_drift"
    /\ UNCHANGED <<caller, df_q3, df_q4, evolve_locals, q3_at_call, rng_at_call, returned>>
    /\ UNCHANGED agent_vars

\* 2. the two np.random.choice calls of the credit score changes
EvolveSelectDrift ==
    /\ pc = "select_drift"
    /\ LET index    == IndexOf(heap[df_q4])
           n_loans  == Len(heap[df_q4])
           n_det    == IntFraction(n_loans, 25, 100)
           n_imp    == IntFraction(n_loans, 15, 100)
           det      == ChoiceNoReplace(index, n_det, rng)
           rest     == Without(index, det)
       IN  IF CanSample(index, n_det) /\ CanSample(rest, n_imp)
           THEN /\ deterioration_indices' = det
                /\ improvement_indices' = ChoiceNoReplace(rest, n_imp, Advance(rng, n_det))
                /\ rng' = Advance(rng, n_det + n_imp)
                /\ pc' = "deteriorate"
           ELSE /\ pc' = "failed"
                /\ UNCHANGED <<deterioration_indices, improvement_indices, rng>>
    /\ UNCHANGED <<caller, heap, df_q3, df_q4, newly_delinquent, worsening_30,
                   worsening_60, curing, q3_at_call, rng_at_call, returned>>
    /\ UNCHANGED agent_vars

EvolveDeteriorate ==
    /\ pc = "deteriorate"
    /\ heap' = [heap EXCEPT ![df_q4] =
                    Deteriorate(@, deterioration_indices, rng)]
    /\ rng' = Advance(rng, Len(deterioration_indices))
    /\ pc' = "improve"
    /\ UNCHANGED <<caller, df_q3, df_q4, evolve_locals, q3_at_call, rng_at_call, returned>>
    /\ UNCHANGED agent_vars

EvolveImprove ==
    /\ pc = "improve"
    /\ heap' = [heap EXCEPT ![df_q4] =
                    Improve(@, improvement_indices, rng)]
    /\ rng' = Advance(rng, Len(improvement_indices))
    /\ pc' = "step_a"
    /\ UNCHANGED <<caller, df_q3, df_q4, evolve_locals, q3_at_call, rng_at_call, returned>>
    /\ UNCHANGED agent_vars

\* 3. loans that were current may become delinquent
EvolveNewlyDelinquent ==
    /\ pc = "step_a"
    /\ LET current_loans == Filter(heap[df_q4], IsCurrent(heap[df_q4]))
           size          == IntFraction(Len(current_loans), 8, 100)
           chosen        == ChoiceNoReplace(current_loans, size, rng)
       IN  IF CanSample(current_loans, size)
           THEN /\ newly_delinquent' = chosen
                /\ heap' = [heap EXCEPT ![df_q4] =
                                SetDpd(@, chosen, <<30, 60>>, <<700, 1000>>,
                                       Advance(rng, size))]
                /\ rng' = Advance(rng, 2 * size)
                /\ pc' = "step_b"
           ELSE /\ pc' = "failed"
                /\ UNCHANGED <<newly_delinquent, heap, rng>>
    /\ UNCHANGED <<caller, df_q3, df_q4, deterioration_indices, improvement_indices,
                   worsening_30, worsening_60, curing, q3_at_call, rng_at_call, returned>>
    /\ UNCHANGED agent_vars

\* some 30 DPD become 60 or 90
EvolveWorsening30 ==
    /\ pc = "step_b"
    /\ LET dpd_30 == Filter(heap[df_q4], IsDpd30(heap[df_q4]))
           size   == IntFraction(Len(dpd_30), 4, 10)
           chosen == ChoiceNoReplace(dpd_30, size, rng)
       IN  IF CanSample(dpd_30, size)
           THEN /\ worsening_30' = chosen
                /\ heap' = [heap EXCEPT ![df_q4] =
                                SetDpd(@, chosen, <<60, 90>>, <<600, 1000>>,
                                       Advance(rng, size))]
                /\ rng' = Advance(rng, 2 * size)
                /\ pc' = "step_c"
           ELSE /\ pc' = "failed"
                /\ UNCHANGED <<worsening_30, heap, rng>>
    /\ UNCHANGED <<caller, df_q3, df_q4, deterioration_indices, improvement_indices,
                   newly_delinquent, worsening_60, curing, q3_at_call, rng_at_call, returned>>
    /\ UNCHANGED agent_vars

\* some 60 DPD become 90 or 120
EvolveWorsening60 ==
    /\ pc = "step_c"
    /\ LET dpd_60 == Filter(heap[df_q4], IsDpd60(heap[df_q4]))
           size   == IntFraction(Len(dpd_60), 5, 10)
           chosen == ChoiceNoReplace(dpd_60, size, rng)
       IN  IF CanSample(dpd_60, size)
           THEN /\ worsening_60' = chosen
                /\ heap' = [heap EXCEPT ![df_q4] =
                                SetDpd(@, chosen, <<90, 120>>, <<700, 1000>>,
                                       Advance(rng, size))]
                /\ rng' = Advance(rng, 2 * size)
                /\ pc' = "step_d"
           ELSE /\ pc' = "failed"
                /\ UNCHANGED <<worsening_60, heap, rng>>
    /\ UNCHANGED <<caller, df_q3, df_q4, deterioration_indices, improvement_indices,
                   newly_delinquent, worsening_30, curing, q3_at_call, rng_at_call, returned>>
    /\ UNCHANGED agent_vars

\* some delinquent loans cure
EvolveCuring ==
    /\ pc = "step_d"
    /\ LET delinquent == Filter(heap[df_q4], IsDelinquent(heap[df_q4]))
           size       == IntFraction(Len(delinquent), 15, 100)
           chosen     == ChoiceNoReplace(delinquent, size, rng)
       IN  IF CanSample(delinquent, size)
           THEN /\ curing' = chosen
                /\ heap' = [heap EXCEPT ![df_q4] = Cure(@, chosen)]
                /\ rng' = Advance(rng, size)
                /\ pc' = "round"
           ELSE /\ pc' = "failed"
                /\ UNCHANGED <<curing, heap, rng>>
    /\ UNCHANGED <<caller, df_q3, df_q4, deterioration_indices, improvement_indices,
                   newly_delinquent, worsening_30, worsening_60, q3_at_call, rng_at_call, returned>>
    /\ UNCHANGED agent_vars

\* round credit scores and balances; the recalculation follows
EvolveRound ==
    /\ pc = "round"
    /\ heap' = [heap EXCEPT ![df_q4] = RoundColumns(@)]
    /\ pc' = "pd_lgd"
    /\ UNCHANGED <<caller, df_q3, df_q4, rng, evolve_locals, q3_at_call, rng_at_call, returned>>
    /\ UNCHANGED agent_vars

\* a further call of assign_ifrs9_stage on the snapshot the program produced last
Reclassify ==
    /\ pc = "done"
    /\ heap' = [heap EXCEPT ![Target] = assign_ifrs9_stage(@)]
    /\ pc' = "reclassified"
    /\ UNCHANGED <<caller, df_q3, df_q4, rng, evolve_locals, q3_at_call, rng_at_call, returned>>
    /\ UNCHANGED agent_vars

-----------------------------------------------------------------------------
(* The script: seed, generate Q3, run the calculators, evolve to Q4 *)

Init ==
    /\ pc = "generate"
    /\ caller = "main"
    /\ heap = <<>>
    /\ df_q3 = 0
    /\ df_q4 = 0
    /\ rng \in 0..MaxSeed
    /\ deterioration_indices = <<>>
    /\ improvement_indices = <<>>
    /\ newly_delinquent = <<>>
    /\ worsening_30 = <<>>
    /\ worsening_60 = <<>>
    /\ curing = <<>>
    /\ q3_at_call = <<>>
    /\ rng_at_call = rng
    /\ returned = <<>>
    /\ AgentNotCalled

Next ==
    \/ GenerateBasePortfolio
    \/ CalculatePdLgd
    \/ AssignIfrs9Stage
    \/ CalculateEcl
    \/ EvolveCopy
    \/ EvolveAmortize
    \/ EvolveSelectDrift
    \/ EvolveDeteriorate
    \/ EvolveImprove
    \/ EvolveNewlyDelinquent
    \/ EvolveWorsening30
    \/ EvolveWorsening60
    \/ EvolveCuring
    \/ EvolveRound
    \/ Reclassify

Spec == Init /\ [][Next]_vars

-----------------------------------------------------------------------------
(* The calculators called directly on a frame of two loans: the same three *)
(* functions, on every combination of the inputs they branch on.  The name *)
(* df_q3 holds the frame passed in.                                        *)

\* seeds 0..MaxDirectSeed of the random source for the direct calls
MaxDirectSeed == 1

DirectProducts == Range(ProductTypes) \cup {"Student Loan"}

DirectScores == {300, 599, 600, 649, 650, 699, 700, 749, 750, 760, 850}

DirectDrops == {0, 100, 101}

DirectDpd == {0, 1, 30, 31, 90, 91, 180}

DirectBalances == {0, 10000000}

DirectRow(id, product, origination, current, dpd, balance) ==
    [loan_id                  |-> id,
     product_type             |-> product,
     outstanding_balance      |-> balance,
     credit_score_origination |-> origination,
     credit_score_current     |-> current,
     days_past_due            |-> dpd]

InitDirect ==
    /\ pc = "pd_lgd"
    /\ caller = "direct"
    /\ \E product \in DirectProducts, s1 \in DirectScores, s2 \in DirectScores,
          drop \in DirectDrops, dpd \in DirectDpd, balance \in DirectBalances :
            heap = << <<DirectRow(1, product, Min(850, s1 + drop), s1, dpd, balance),
                        DirectRow(2, product, Min(850, s1 + drop), s2, dpd, balance)>> >>
    /\ df_q3 = 1
    /\ df_q4 = 0
    /\ rng \in 0..MaxDirectSeed
    /\ deterioration_indices = <<>>
    /\ improvement_indices = <<>>
    /\ newly_delinquent = <<>>
    /\ worsening_30 = <<>>
    /\ worsening_60 = <<>>
    /\ curing = <<>>
    /\ q3_at_call = <<>>
    /\ rng_at_call = rng
    /\ returned = <<>>
    /\ AgentNotCalled

NextDirect ==
    \/ CalculatePdLgd
    \/ AssignIfrs9Stage
    \/ CalculateEcl
    \/ Reclassify

SpecDirect == InitDirect /\ [][NextDirect]_vars

-----------------------------------------------------------------------------
(* The script followed by a second call of evolve_to_q4 on the same df_q3,  *)
(* with the generator put back to the state it had at the first call.      *)

\* seeds 0..MaxReplaySeed of the random source for the repeated call
MaxReplaySeed == 59

\* np.random.set_state(state at the first call); evolve_to_q4(df_q3)
EvolveAgain ==
    /\ pc = "done"
    /\ caller = "evolve"
    /\ Len(returned) = 1
    /\ rng' = rng_at_call
    /\ pc' = "evolve_copy"
    /\ UNCHANGED <<caller, heap, df_q3, df_q4, evolve_locals, q3_at_call, rng_at_call,
                   returned>>
    /\ UNCHANGED agent_vars

InitReplay == Init /\ rng <= MaxReplaySeed

NextReplay ==
    \/ Next
    \/ EvolveAgain

SpecReplay == InitReplay /\ [][NextReplay]_vars

-----------------------------------------------------------------------------
(* The script with other values of n_loans *)

\* n_loans ranges over 1..MaxWideLoans
MaxWideLoans == 40

\* seeds 0..MaxWideSeed of the random source for the other portfolio sizes
MaxWideSeed == 5

InitWide == Init /\ rng <= MaxWideSeed

NextWide ==
    \/ Next
    \/ \E n_loans \in 1..MaxWideLoans : GenerateBasePortfolioOf(n_loans)

SpecWide == InitWide /\ [][NextWide]_vars

-----------------------------------------------------------------------------
(* evolve_to_q4 called directly on a snapshot of two loans with small        *)
(* balances; df_q3 names the snapshot passed in.                             *)

\* seeds 0..MaxEvolveSeed of the random source for the direct evolutions
MaxEvolveSeed == 7

\* balances in cents
EvolveBalances == {0, 1, 2, 3, 50, 99, 100, 101}

EvolveDpd == {0, 30, 60, 180}

EvolveRow(id, dpd, balance) ==
    [reporting_date |-> REPORTING_Q3] @@ DirectRow(id, "Mortgage", 700, 700, dpd, balance)

InitEvolve ==
    /\ pc = "evolve_copy"
    /\ caller = "direct"
    /\ \E d1 \in EvolveDpd, d2 \in EvolveDpd, b1 \in EvolveBalances, b2 \in EvolveBalances :
            heap = << <<EvolveRow(1, d1, b1), EvolveRow(2, d2, b2)>> >>
    /\ df_q3 = 1
    /\ df_q4 = 0
    /\ rng \in 0..MaxEvolveSeed
    /\ deterioration_indices = <<>>
    /\ improvement_indices = <<>>
    /\ newly_delinquent = <<>>
    /\ worsening_30 = <<>>
    /\ worsening_60 = <<>>
    /\ curing = <<>>
    /\ q3_at_call = <<>>
    /\ rng_at_call = rng
    /\ returned = <<>>
    /\ AgentNotCalled

NextEvolve ==
    \/ EvolveCopy
    \/ EvolveAmortize
    \/ EvolveSelectDrift
    \/ EvolveDeteriorate
    \/ EvolveImprove
    \/ EvolveNewlyDelinquent
    \/ EvolveWorsening30
    \/ EvolveWorsening60
    \/ EvolveCuring
    \/ EvolveRound
    \/ CalculatePdLgd
    \/ AssignIfrs9Stage
    \/ CalculateEcl

SpecEvolve == InitEvolve /\ [][NextEvolve]_vars

-----------------------------------------------------------------------------
(* The script on a portfolio with many loans in arrears: the calculators,
   then evolve_to_q4 *)

\* the loans of the portfolio in arrears
MigrateLoans == 20

\* seeds 0..MaxMigrateSeed of the random source
MaxMigrateSeed == 149

\* the first 13 loans are current, the next is 30 or 60 days past due, the
\* next two are 30 and 60 days past due, the others 120 and 180
MigrateCurrent == 13

MigrateDpd(i, d) ==
    IF i <= MigrateCurrent THEN 0
    ELSE IF i = MigrateCurrent + 1 THEN d
    ELSE IF i = MigrateCurrent + 2 THEN 30
    ELSE IF i = MigrateCurrent + 3 THEN 60
    ELSE IF i % 2 = 1 THEN 120
    ELSE 180

MigrateRow(id, dpd) ==
    [reporting_date |-> REPORTING_Q3] @@ DirectRow(id, "Mortgage", 700, 700, dpd, 10000000)

InitMigrate ==
    /\ pc = "pd_lgd"
    /\ caller = "main"
    /\ \E d \in {30, 60} :
          heap = << [i \in 1..MigrateLoans |-> MigrateRow(LoanId(i), MigrateDpd(i, d))] >>
    /\ df_q3 = 1
    /\ df_q4 = 0
    /\ rng \in 0..MaxMigrateSeed
    /\ deterioration_indices = <<>>
    /\ improvement_indices = <<>>
    /\ newly_delinquent = <<>>
    /\ worsening_30 = <<>>
    /\ worsening_60 = <<>>
    /\ curing = <<>>
    /\ q3_at_call = <<>>
    /\ rng_at_call = rng
    /\ returned = <<>>
    /\ AgentNotCalled

NextMigrate ==
    \/ CalculatePdLgd
    \/ AssignIfrs9Stage
    \/ CalculateEcl
    \/ EvolveCopy
    \/ EvolveAmortize
    \/ EvolveSelectDrift
    \/ EvolveDeteriorate
    \/ EvolveImprove
    \/ EvolveNewlyDelinquent
    \/ EvolveWorsening30
    \/ EvolveWorsening60
    \/ EvolveCuring
    \/ EvolveRound
    \/ Reclassify

SpecMigrate == InitMigrate /\ [][NextMigrate]_vars

-----------------------------------------------------------------------------
(* The script and the direct calls together *)

InitAll == Init \/ InitDirect

SpecAll == InitAll /\ [][Next]_vars

-----------------------------------------------------------------------------
(* The snapshots the program has produced *)

HasColumn(df, column) == Len(df) > 0 /\ column \in DOMAIN df[1]

Rows(df) == {df[i] : i \in 1..Len(df)}

\* the base snapshot, once assign_ifrs9_stage has run on it
BaseStaged == df_q3 # 0 /\ HasColumn(heap[df_q3], "ifrs9_stage")

\* the base snapshot, once calculate_ecl has run on it
BaseComplete == df_q3 # 0 /\ HasColumn(heap[df_q3], "ecl_rate")

\* evolve_to_q4 has returned its snapshot
EvolvedReturned == caller = "evolve" /\ pc \in {"done", "reclassified"}

\* the rows of the snapshots that carry a stage
StagedRows ==
    (IF BaseStaged THEN Rows(heap[df_q3]) ELSE {})
        \cup (IF EvolvedReturned THEN Rows(heap[df_q4]) ELSE {})

\* the rows of the snapshots that are complete
CompleteRows ==
    (IF BaseComplete THEN Rows(heap[df_q3]) ELSE {})
        \cup (IF EvolvedReturned THEN Rows(heap[df_q4]) ELSE {})

\* the rows, as <<frame, index>>, of every frame that carries the PD columns
PdRows ==
    UNION {{<<f, i>> : i \in 1..Len(heap[f])} :
              f \in {g \in DOMAIN heap : HasColumn(heap[g], "pd_lifetime")}}

RowAt(fi) == heap[fi[1]][fi[2]]

ScoreDrop(row) == row.credit_score_origination - row.credit_score_current

-----------------------------------------------------------------------------
(* Claims *)

\* C1: in the base snapshot after assign_ifrs9_stage and in the snapshot
\* evolve_to_q4 returns, every record with days_past_due > 90 is in stage 3,
\* whatever its scores and pd_12m.
C1_Over90IsStage3 ==
    \A row \in StagedRows : row.days_past_due > 90 => row.ifrs9_stage = 3

\* C1 witness: the evolution moved a loan from at most 90 days past due to
\* more than 90 and returned it in stage 3.
C1_Witness ==
    /\ EvolvedReturned
    /\ \E i \in 1..Len(heap[df_q4]) :
          /\ heap[df_q4][i].days_past_due > 90
          /\ q3_at_call[i].days_past_due <= 90
          /\ heap[df_q4][i].ifrs9_stage = 3

\* C2: for a record with days_past_due <= 90 the stage is 2 exactly when
\* days_past_due >= 30, or the score drop exceeds 100, or pd_12m exceeds 0.03,
\* and 1 otherwise (so 90 days is stage 2, and a drop of exactly 100 or a
\* pd_12m of exactly 0.03 alone leaves stage 1).
C2_StageTwoRule ==
    \A row \in StagedRows :
        row.days_past_due <= 90 =>
            row.ifrs9_stage =
                IF row.days_past_due >= 30 \/ ScoreDrop(row) > 100 \/ row.pd_12m > 30000
                THEN 2 ELSE 1

\* C2 witness: a current loan whose score drop is exactly 100 and whose
\* pd_12m is exactly 0.03 has been classified, in stage 1.
C2_Witness ==
    \E row \in StagedRows :
        /\ row.days_past_due = 0
        /\ ScoreDrop(row) = 100
        /\ row.pd_12m = 30000
        /\ row.ifrs9_stage = 1

\* C3: the stage is a function of (days_past_due, score drop, pd_12m) alone:
\* any two classified records with equal triples carry equal stages, in and
\* across the input and the output snapshot of the evolution, whatever stage
\* they held before; and a further assign_ifrs9_stage on the returned
\* snapshot changes nothing.
C3_StageIsFunctionOfTriple ==
    /\ [](\A r1 \in StagedRows, r2 \in StagedRows :
             (/\ r1.days_past_due = r2.days_past_due
              /\ ScoreDrop(r1) = ScoreDrop(r2)
              /\ r1.pd_12m = r2.pd_12m) => r1.ifrs9_stage = r2.ifrs9_stage)
    /\ [][pc = "done" => heap' = heap]_vars

\* C3 witness: a loan in stage 2 in the input snapshot is in stage 1 in the
\* returned one, and the returned snapshot has been classified once more.
C3_Witness ==
    /\ caller = "evolve"
    /\ pc = "reclassified"
    /\ \E i \in 1..Len(heap[df_q4]) :
          q3_at_call[i].ifrs9_stage = 2 /\ heap[df_q4][i].ifrs9_stage = 1

\* the PD table as the claim states it, in 1e-6
C4_BasePd(score) ==
    CASE score >= 750 -> 5000
      [] score >= 700 /\ score < 750 -> 10000
      [] score >= 650 /\ score < 700 -> 25000
      [] score >= 600 /\ score < 650 -> 50000
      [] score < 600 -> 100000

C4_DpdMultiplier(dpd) ==
    CASE dpd = 0 -> 1
      [] dpd # 0 /\ dpd <= 30 -> 2
      [] dpd > 30 /\ dpd <= 90 -> 4
      [] dpd > 90 -> 8

C4_ProductAdjustment(product) ==
    CASE product = "Mortgage" -> 7
      [] product = "Auto Loan" -> 9
      [] product = "Personal Loan" -> 12
      [] product = "Credit Card" -> 15
      [] product = "SME Loan" -> 13
      [] OTHER -> 10

\* C4: pd_12m = min(1.0, base_pd x dpd_multiplier x product_adjustment) with
\* the three tables of the claim.
C4_PdFormula ==
    \A fi \in PdRows :
        RowAt(fi).pd_12m =
            Min(1000000,
                (C4_BasePd(RowAt(fi).credit_score_current)
                    * C4_DpdMultiplier(RowAt(fi).days_past_due)
                    * C4_ProductAdjustment(RowAt(fi).product_type)) \div 10)

\* C4 witness: score 760, 0 days past due, Mortgage has been given 0.0035.
C4_Witness ==
    \E fi \in PdRows :
        /\ RowAt(fi).credit_score_current = 760
        /\ RowAt(fi).days_past_due = 0
        /\ RowAt(fi).product_type = "Mortgage"
        /\ RowAt(fi).pd_12m = 3500

\* C5: in every frame that holds the PD columns, pd_lifetime is
\* min(3 x pd_12m, 1.0) of the stored pd_12m, and is at least pd_12m.
C5_LifetimePd ==
    \A fi \in PdRows :
        /\ RowAt(fi).pd_lifetime = Min(3 * RowAt(fi).pd_12m, 1000000)
        /\ RowAt(fi).pd_lifetime >= RowAt(fi).pd_12m

\* C5 witness: the returned snapshot holds a record whose lifetime PD is capped
\* at 1.0 above a 12-month PD below 1.0, and one whose lifetime PD is not capped.
C5_Witness ==
    /\ EvolvedReturned
    /\ \E row \in Rows(heap[df_q4]) : row.pd_lifetime = 1000000 /\ row.pd_12m < 1000000
    /\ \E row \in Rows(heap[df_q4]) : row.pd_lifetime < 1000000 /\ row.pd_12m > 0

\* C6: in every frame that holds the PD columns, of two records with the same
\* days_past_due and product_type the one whose credit_score_current is lower
\* or equal has a pd_12m that is greater or equal.
C6_PdMonotonicInScore ==
    \A f \in PdRows, g \in PdRows :
        (/\ f[1] = g[1]
         /\ RowAt(f).days_past_due = RowAt(g).days_past_due
         /\ RowAt(f).product_type = RowAt(g).product_type
         /\ RowAt(f).credit_score_current <= RowAt(g).credit_score_current)
            => RowAt(f).pd_12m >= RowAt(g).pd_12m

\* C6 witness: two records with the same days_past_due and product_type, the
\* first with the strictly lower score, have been given a strictly higher and a
\* strictly lower pd_12m.
C6_Witness ==
    \E f \in PdRows, g \in PdRows :
        /\ f[1] = g[1]
        /\ RowAt(f).days_past_due = RowAt(g).days_past_due
        /\ RowAt(f).product_type = RowAt(g).product_type
        /\ RowAt(f).credit_score_current < RowAt(g).credit_score_current
        /\ RowAt(f).pd_12m > RowAt(g).pd_12m

\* C7: in the base snapshot and in the snapshot evolve_to_q4 returns, every
\* record's ecl_amount is round(outstanding_balance x P x lgd, 2), P being the
\* record's pd_12m in stage 1 and its pd_lifetime in stage 2 or 3, and its
\* ecl_rate is round(ecl_amount / outstanding_balance x 100, 4).
C7_EclFormula ==
    \A row \in CompleteRows :
        /\ row.ifrs9_stage \in {1, 2, 3}
        /\ row.ecl_amount =
               EclCents(row.outstanding_balance,
                        IF row.ifrs9_stage = 1 THEN row.pd_12m ELSE row.pd_lifetime,
                        row.lgd)
        /\ row.outstanding_balance > 0
        /\ row.ecl_rate = MulDivRound(row.ecl_amount, 1000000, row.outstanding_balance)

\* C7 witness: the returned snapshot holds a stage 1, a stage 2 and a stage 3
\* record with a positive ecl_amount, the latter two with a pd_lifetime that
\* differs from pd_12m.
C7_Witness ==
    /\ EvolvedReturned
    /\ \A stage \in {1, 2, 3} :
          \E row \in Rows(heap[df_q4]) :
              /\ row.ifrs9_stage = stage
              /\ row.ecl_amount > 0
              /\ row.ecl_rate > 0
              /\ stage # 1 => row.pd_lifetime # row.pd_12m

\* C8: calculate_ecl returns no snapshot in which a record has
\* outstanding_balance = 0: no frame that carries the ecl_rate column holds
\* such a record.
C8_ZeroBalanceIsRejected ==
    \A f \in DOMAIN heap :
        HasColumn(heap[f], "ecl_rate") =>
            \A row \in Rows(heap[f]) : row.outstanding_balance # 0

\* C8 witness: calculate_ecl has returned a frame whose records have
\* outstanding_balance = 0 and carry NaN as ecl_rate.
C8_Witness ==
    /\ pc \in {"done", "reclassified"}
    /\ HasColumn(heap[df_q3], "ecl_rate")
    /\ \A row \in Rows(heap[df_q3]) :
          /\ row.outstanding_balance = 0
          /\ row.ecl_amount = 0
          /\ row.ecl_rate = NaN

\* C9: from the call of evolve_to_q4 on, the input snapshot df_q3 holds in
\* every field of every record the value it had at the call, and the snapshot
\* being built and returned is another frame.
C9_InputNotMutated ==
    caller = "evolve" => (df_q4 # df_q3 /\ heap[df_q3] = q3_at_call)

\* C9 witness: evolve_to_q4 has returned a snapshot in which some record
\* differs from the input in reporting_date, outstanding_balance,
\* credit_score_current, days_past_due and ecl_amount, and the input is as
\* it was at the call.
C9_Witness ==
    /\ EvolvedReturned
    /\ heap[df_q3] = q3_at_call
    /\ \E i \in 1..Len(q3_at_call) :
          /\ heap[df_q4][i].reporting_date # q3_at_call[i].reporting_date
          /\ heap[df_q4][i].outstanding_balance # q3_at_call[i].outstanding_balance
          /\ heap[df_q4][i].credit_score_current # q3_at_call[i].credit_score_current
          /\ heap[df_q4][i].days_past_due # q3_at_call[i].days_past_due
          /\ heap[df_q4][i].ecl_amount # q3_at_call[i].ecl_amount

\* C10: after every pass of evolve_to_q4 and in the snapshot it returns, the
\* record count and the set of loan_id values are those of the input, and no
\* loan_id occurs twice.
C10_LoanIdsConserved ==
    caller = "evolve" =>
        LET ids == {heap[df_q4][i].loan_id : i \in 1..Len(heap[df_q4])}
        IN  /\ Len(heap[df_q4]) = Len(q3_at_call)
            /\ ids = {q3_at_call[i].loan_id : i \in 1..Len(q3_at_call)}
            /\ Cardinality(ids) = Len(heap[df_q4])

\* C10 witness: evolve_to_q4 has returned a snapshot of NLoans records in
\* which a loan that was delinquent in the input was cured to 0 days past due.
C10_Witness ==
    /\ EvolvedReturned
    /\ Len(heap[df_q4]) = NLoans
    /\ \E k \in 1..Len(curing) :
          /\ q3_at_call[curing[k]].days_past_due > 0
          /\ heap[df_q4][curing[k]].days_past_due = 0
          /\ heap[df_q4][curing[k]].loan_id = q3_at_call[curing[k]].loan_id

\* the labels of the frame being evolved whose days_past_due is in a set now
C11_Eligible(values) ==
    {i \in 1..Len(heap[df_q4]) : heap[df_q4][i].days_past_due \in values}

\* a selection of int(pct% of the pool) labels of the pool
C11_SelectedFrom(selection, pool, pct) ==
    /\ Range(selection) \subseteq pool
    /\ Len(selection) = (Cardinality(pool) * pct) \div 100

\* C11: each delinquency step of one evolve_to_q4 call selects among the
\* loans whose days_past_due, as the preceding steps of the call left it, is
\* eligible (0 for step a, 30 for b, 60 for c, above 0 for d), and the number
\* it selects is the step's fraction of that pool.
C11_CascadingEligibility ==
    [][/\ (pc = "step_a" /\ pc' = "step_b") =>
              C11_SelectedFrom(newly_delinquent', C11_Eligible({0}), 8)
       /\ (pc = "step_b" /\ pc' = "step_c") =>
              C11_SelectedFrom(worsening_30', C11_Eligible({30}), 40)
       /\ (pc = "step_c" /\ pc' = "step_d") =>
              C11_SelectedFrom(worsening_60', C11_Eligible({60}), 50)
       /\ (pc = "step_d" /\ pc' = "round") =>
              C11_SelectedFrom(curing', C11_Eligible({30, 60, 90, 120, 180}), 15)]_vars

\* C11 witness: a loan that was current in the input was set to 30 by step
\* (a), selected again by step (b) and returned at 60 days or more.
C11_Witness ==
    /\ EvolvedReturned
    /\ \E i \in Range(newly_delinquent) \cap Range(worsening_30) :
          /\ q3_at_call[i].days_past_due = 0
          /\ heap[df_q4][i].days_past_due >= 60

C13_DriftSelected ==
    caller = "evolve" /\ pc \notin {"amortize", "select_drift", "failed"}

\* C13: the deterioration subset has 25% of the population, the improvement
\* subset has 15% of the population left without the deterioration subset
\* (whichever way the fraction is rounded to a count), no loan is in both and
\* no loan occurs twice in one.
C13_DriftSubsets ==
    C13_DriftSelected =>
        LET n         == Len(heap[df_q4])
            remaining == n - Len(deterioration_indices)
        IN  /\ Len(deterioration_indices) = (25 * n) \div 100
            /\ 100 * Len(improvement_indices) > (15 * remaining) - 100
            /\ 100 * Len(improvement_indices) < (15 * remaining) + 100
            /\ Range(deterioration_indices) \cap Range(improvement_indices) = {}
            /\ Cardinality(Range(deterioration_indices)) = Len(deterioration_indices)
            /\ Cardinality(Range(improvement_indices)) = Len(improvement_indices)

\* C13 witness: of 40 loans 10 were selected for deterioration and 6 of the
\* 30 others, which is 15% of the 40 and 20% of the 30, for improvement.
C13_Witness ==
    /\ C13_DriftSelected
    /\ Len(heap[df_q4]) = 40
    /\ Len(deterioration_indices) = 10
    /\ Len(improvement_indices) = 6
    /\ Range(deterioration_indices) \cap Range(improvement_indices) = {}

\* C14: when every credit_score_current of the input snapshot is an integer
\* in [300, 850], so is every credit_score_current of the frame evolve_to_q4
\* works on and returns, after every pass.
C14_ScoresStayInRange ==
    (/\ caller = "evolve"
     /\ \A i \in 1..Len(q3_at_call) : q3_at_call[i].credit_score_current \in 300..850)
        => \A i \in 1..Len(heap[df_q4]) : heap[df_q4][i].credit_score_current \in 300..850

\* C14 witness: a loan selected for improvement with an input score below
\* 850 was returned at 850, the score the cap leaves.
C14_Witness ==
    /\ EvolvedReturned
    /\ \E i \in Range(improvement_indices) :
          /\ q3_at_call[i].credit_score_current \in 831..849
          /\ heap[df_q4][i].credit_score_current = 850

\* days_past_due of the frame being evolved, before and after a step
C15_Before(i) == heap[df_q4][i].days_past_due

C15_After(i) == heap'[df_q4][i].days_past_due

\* a step that selects loans at one of `from` and sets each to one of `to`,
\* leaving the loans it did not select as they were
C15_Step(selection, from, to) ==
    /\ Cardinality(Range(selection)) = Len(selection)
    /\ \A i \in 1..Len(heap[df_q4]) :
          IF i \in Range(selection)
          THEN C15_Before(i) \in from /\ C15_After(i) \in to
          ELSE C15_After(i) = C15_Before(i)

\* C15: step (a) sets the loans it selected, all at 0, to 30 or 60; step (b)
\* those it selected, all at 30, to 60 or 90; step (c) those it selected, all
\* at 60, to 90 or 120; step (d) takes those it selected from 30 to 0, from
\* 60 to 30 and from 90 or more to 60.  Every step leaves the days_past_due
\* of the loans it did not select unchanged and selects no loan twice.
C15_StepsChangeOnlySelected ==
    [][/\ (pc = "step_a" /\ pc' = "step_b") => C15_Step(newly_delinquent', {0}, {30, 60})
       /\ (pc = "step_b" /\ pc' = "step_c") => C15_Step(worsening_30', {30}, {60, 90})
       /\ (pc = "step_c" /\ pc' = "step_d") => C15_Step(worsening_60', {60}, {90, 120})
       /\ (pc = "step_d" /\ pc' = "round") =>
              /\ Cardinality(Range(curing')) = Len(curing')
              /\ \A i \in 1..Len(heap[df_q4]) :
                    C15_After(i) =
                        IF i \notin Range(curing') THEN C15_Before(i)
                        ELSE IF C15_Before(i) = 30 THEN 0
                        ELSE IF C15_Before(i) = 60 THEN 30
                        ELSE 60
              /\ \A i \in Range(curing') : C15_Before(i) \in {30, 60, 90, 120, 180}]_vars

\* C15 witness: step (d) cured a loan that no earlier step had selected from
\* 90 days or more to 60, and steps (a) and (b) each selected a loan.
C15_Witness ==
    /\ EvolvedReturned
    /\ Len(newly_delinquent) > 0
    /\ Len(worsening_30) > 0
    /\ \E i \in Range(curing) :
          /\ i \notin Range(newly_delinquent) \cup Range(worsening_30) \cup Range(worsening_60)
          /\ q3_at_call[i].days_past_due >= 90
          /\ heap[df_q4][i].days_past_due = 60

\* the passes of evolve_to_q4 in the order the claim gives them
C16_Passes ==
    <<"amortize", "select_drift", "deteriorate", "improve", "step_a", "step_b",
      "step_c", "step_d", "round", "pd_lgd", "stage", "ecl", "done">>

C16_Position(p) == CHOOSE k \in 1..Len(C16_Passes) : C16_Passes[k] = p

\* the 12-month PD of the claim's tables for a record's own current values
C16_Pd12m(row) ==
    Min(1000000,
        (C4_BasePd(row.credit_score_current) * C4_DpdMultiplier(row.days_past_due)
            * C4_ProductAdjustment(row.product_type)) \div 10)

C16_Stage(row) ==
    IF row.days_past_due > 90 THEN 3
    ELSE IF row.days_past_due >= 30 \/ ScoreDrop(row) > 100 \/ row.pd_12m > 30000 THEN 2
    ELSE 1

\* every risk output of a returned record follows from the record's own final
\* days_past_due, credit_score_current and outstanding_balance
C16_FromFinalValues ==
    EvolvedReturned =>
        \A row \in Rows(heap[df_q4]) :
            /\ row.pd_12m = C16_Pd12m(row)
            /\ row.pd_lifetime = Min(3 * row.pd_12m, 1000000)
            /\ row.ifrs9_stage = C16_Stage(row)
            /\ row.ecl_amount =
                   EclCents(row.outstanding_balance,
                            IF row.ifrs9_stage = 1 THEN row.pd_12m ELSE row.pd_lifetime,
                            row.lgd)
            /\ row.ecl_rate = MulDivRound(row.ecl_amount, 1000000, row.outstanding_balance)

\* the recomputation leaves the three columns it reads as the passes left them
C16_InputsFrozen ==
    (caller = "evolve" /\ pc \in {"pd_lgd", "stage", "ecl"}) =>
        \A i \in 1..Len(heap[df_q4]) :
            /\ heap'[df_q4][i].days_past_due = heap[df_q4][i].days_past_due
            /\ heap'[df_q4][i].credit_score_current = heap[df_q4][i].credit_score_current
            /\ heap'[df_q4][i].outstanding_balance = heap[df_q4][i].outstanding_balance

\* C16: the passes of one call run in the order amortization, score drift,
\* steps a, b, c, d, rounding, and only then the recomputation, which does
\* not change the columns it reads; and every pd_12m, pd_lifetime,
\* ifrs9_stage, ecl_amount and ecl_rate of the returned snapshot follows from
\* the record's final days_past_due, credit_score_current and
\* outstanding_balance.
C16_RecomputedFromFinalState ==
    /\ []C16_FromFinalValues
    /\ [][/\ (caller' = "evolve" /\ pc \in Range(C16_Passes) /\ pc' \in Range(C16_Passes)
              /\ pc' # pc /\ pc # "done")
                 => C16_Position(pc') = C16_Position(pc) + 1
          /\ C16_InputsFrozen]_vars

\* C16 witness: a loan current in the input, set to 30 by step (a) and moved
\* on by step (b), was returned with the pd_12m of its final days_past_due,
\* which is neither the input's nor that of the intermediate 30 days, and
\* with another stage than the input's.
C16_Witness ==
    /\ EvolvedReturned
    /\ \E i \in Range(newly_delinquent) \cap Range(worsening_30) :
          /\ q3_at_call[i].days_past_due = 0
          /\ heap[df_q4][i].days_past_due > 30
          /\ heap[df_q4][i].pd_12m = C16_Pd12m(heap[df_q4][i])
          /\ heap[df_q4][i].pd_12m # q3_at_call[i].pd_12m
          /\ heap[df_q4][i].pd_12m # C16_Pd12m([heap[df_q4][i] EXCEPT !.days_past_due = 30])
          /\ heap[df_q4][i].ifrs9_stage # q3_at_call[i].ifrs9_stage
          /\ heap[df_q4][i].outstanding_balance < q3_at_call[i].outstanding_balance

\* the frame of a direct call carries the columns of calculate_pd_lgd
C17_PdLgdDone == caller = "direct" /\ HasColumn(heap[df_q3], "lgd")

\* the values calculate_pd_lgd gives a record
C17_Values(row) == <<row.pd_12m, row.pd_lifetime, row.lgd>>

\* C17: the pd_12m, pd_lifetime and lgd that calculate_pd_lgd gave each
\* record of a snapshot are those it gives the record, from the same state
\* of the random source, when the record is alone in the snapshot and when
\* the records are processed in the reverse order.
C17_RecordsIndependent ==
    C17_PdLgdDone =>
        LET df       == heap[df_q3]
            n        == Len(df)
            reversed == [k \in 1..n |-> df[n + 1 - k]]
        IN  \A i \in 1..n :
                /\ C17_Values(df[i]) = C17_Values(calculate_pd_lgd(<<df[i]>>, rng_at_call)[1])
                /\ C17_Values(df[i]) =
                       C17_Values(calculate_pd_lgd(reversed, rng_at_call)[n + 1 - i])

\* C17 witness: two records with the same product_type, credit_score_current
\* and days_past_due were given the same pd_12m and different lgd in one call.
C17_Witness ==
    /\ C17_PdLgdDone
    /\ heap[df_q3][1].product_type = heap[df_q3][2].product_type
    /\ heap[df_q3][1].credit_score_current = heap[df_q3][2].credit_score_current
    /\ heap[df_q3][1].days_past_due = heap[df_q3][2].days_past_due
    /\ heap[df_q3][1].pd_12m = heap[df_q3][2].pd_12m
    /\ heap[df_q3][1].lgd # heap[df_q3][2].lgd
    /\ heap[df_q3][2].lgd # calculate_pd_lgd(<<heap[df_q3][2]>>, rng_at_call)[1].lgd

\* the number of loans of the frame being evolved whose days_past_due is in a set
C18_Pool(values) ==
    Cardinality({i \in 1..Len(heap[df_q4]) : heap[df_q4][i].days_past_due \in values})

\* a selection of `requested` loans from a pool of `pool` loans either fails
\* the call, when more are requested than the pool holds, or selects exactly
\* the requested number and lets the call go on to the pass `next`
C18_Select(requested, pool, selection, next) ==
    IF requested > pool
    THEN pc' = "failed"
    ELSE Len(selection) = requested /\ pc' = next

\* C18: every selection of evolve_to_q4 either fails the call or selects
\* exactly the number requested, never fewer; a failed call goes no further
\* and returns nothing; a selection from an empty pool selects nothing,
\* changes no record and lets the call go on.
C18_SelectionNeverTruncates ==
    [][/\ pc # "failed"
       /\ pc = "select_drift" =>
              LET n == Len(heap[df_q4])
              IN  IF (25 * n) \div 100 > n \/ (15 * n) \div 100 > n - ((25 * n) \div 100)
                  THEN pc' = "failed"
                  ELSE /\ Len(deterioration_indices') = (25 * n) \div 100
                       /\ Len(improvement_indices') = (15 * n) \div 100
                       /\ pc' = "deteriorate"
       /\ pc = "step_a" =>
              C18_Select((8 * C18_Pool({0})) \div 100, C18_Pool({0}),
                         newly_delinquent', "step_b")
       /\ pc = "step_b" =>
              C18_Select((40 * C18_Pool({30})) \div 100, C18_Pool({30}),
                         worsening_30', "step_c")
       /\ pc = "step_c" =>
              C18_Select((50 * C18_Pool({60})) \div 100, C18_Pool({60}),
                         worsening_60', "step_d")
       /\ pc = "step_d" =>
              C18_Select((15 * C18_Pool({30, 60, 90, 120, 180})) \div 100,
                         C18_Pool({30, 60, 90, 120, 180}), curing', "round")
       /\ (pc = "step_b" /\ C18_Pool({30}) = 0) => (worsening_30' = <<>> /\ heap' = heap)
       /\ (pc = "step_c" /\ C18_Pool({60}) = 0) => (worsening_60' = <<>> /\ heap' = heap)
       /\ (pc = "step_d" /\ C18_Pool({30, 60, 90, 120, 180}) = 0) =>
              (curing' = <<>> /\ heap' = heap)]_vars

\* C18 witness: evolve_to_q4 has returned a snapshot of several loans none of
\* which was delinquent at step (b), (c) or (d): the three selections were
\* made from empty pools and are empty.
C18_Witness ==
    /\ EvolvedReturned
    /\ Len(returned) = 1
    /\ Len(heap[df_q4]) > 1
    /\ \A i \in 1..Len(heap[df_q4]) : heap[df_q4][i].days_past_due = 0
    /\ newly_delinquent = <<>>
    /\ worsening_30 = <<>>
    /\ worsening_60 = <<>>
    /\ curing = <<>>

\* the LGD range of the claim for a product, in 1e-4, as <<low, high>>
C19_LgdRange(product) ==
    CASE product = "Mortgage" -> <<1500, 3000>>
      [] product = "Auto Loan" -> <<2500, 4000>>
      [] product = "Personal Loan" -> <<5000, 7000>>
      [] product = "Credit Card" -> <<6000, 8000>>
      [] product = "SME Loan" -> <<4000, 6000>>
      [] OTHER -> <<5000, 5000>>

\* C19: in every frame, every record that carries the column has pd_12m and
\* pd_lifetime in [0, 1], lgd in [0, 1] and in the range of its product
\* (exactly 0.50 for an unknown product), ifrs9_stage in {1, 2, 3} and
\* ecl_amount >= 0.
C19_RiskOutputsInRange ==
    \A f \in DOMAIN heap :
        \A i \in 1..Len(heap[f]) :
            LET row     == heap[f][i]
                columns == DOMAIN row
            IN  /\ "pd_12m" \in columns => row.pd_12m \in 0..1000000
                /\ "pd_lifetime" \in columns => row.pd_lifetime \in 0..1000000
                /\ "lgd" \in columns =>
                       /\ row.lgd \in 0..10000
                       /\ row.lgd >= C19_LgdRange(row.product_type)[1]
                       /\ row.lgd <= C19_LgdRange(row.product_type)[2]
                /\ "ifrs9_stage" \in columns => row.ifrs9_stage \in {1, 2, 3}
                /\ "ecl_amount" \in columns => row.ecl_amount >= 0

\* C19 witness: calculate_ecl has returned a record of an unknown product
\* with lgd 0.50, more than 90 days past due, with a pd_12m below 1.0 and a
\* pd_lifetime of 1.0, in stage 3, with a positive ecl_amount.
C19_Witness ==
    /\ pc = "done"
    /\ \E row \in Rows(heap[df_q3]) :
          /\ row.product_type \notin Range(ProductTypes)
          /\ row.lgd = 5000
          /\ row.days_past_due > 90
          /\ row.pd_12m < 1000000
          /\ row.pd_lifetime = 1000000
          /\ row.ifrs9_stage = 3
          /\ row.ecl_amount > 0

\* C20: every outstanding_balance evolve_to_q4 returns is the input balance
\* times a factor in [0.96, 0.99], rounded to the cent: it lies between the
\* rounded 0.96 and 0.99 of the input, is not above the input, is not
\* negative, and is positive when the input is.
C20_Amortization ==
    EvolvedReturned =>
        \A i \in 1..Len(q3_at_call) :
            LET before == q3_at_call[i].outstanding_balance
                after  == heap[df_q4][i].outstanding_balance
            IN  /\ after >= MulDivRound(before, 96, 100)
                /\ after <= MulDivRound(before, 99, 100)
                /\ after <= before
                /\ after >= 0
                /\ before >= 1 => after >= 1

\* C20 witness: evolve_to_q4 has returned a loan that entered with a balance
\* of 0.01 and left with 0.01, beside a loan whose balance went down.
C20_Witness ==
    /\ EvolvedReturned
    /\ \E i \in 1..Len(q3_at_call) :
          /\ q3_at_call[i].outstanding_balance = 1
          /\ heap[df_q4][i].outstanding_balance = 1
    /\ \E i \in 1..Len(q3_at_call) :
          /\ q3_at_call[i].outstanding_balance >= 100
          /\ heap[df_q4][i].outstanding_balance < q3_at_call[i].outstanding_balance

\* the columns evolve_to_q4 never assigns
C21_FrameColumns ==
    {"loan_id", "product_type", "origination_date", "original_amount",
     "credit_score_origination", "interest_rate", "industry_sector", "geography"}

\* the positions of evolve_to_q4 after the two drift subsets were drawn
C21_DriftDrawn ==
    {"deteriorate", "improve", "step_a", "step_b", "step_c", "step_d", "round",
     "pd_lgd", "stage", "ecl", "done", "reclassified"}

\* C21: in the frame evolve_to_q4 works on and returns, every loan keeps its
\* loan_id, product_type, origination_date, original_amount,
\* credit_score_origination, interest_rate, industry_sector and geography
\* from the input; every reporting_date is the new period date; and a loan
\* in neither the deterioration nor the improvement subset keeps its
\* credit_score_current.
C21_EvolveFrame ==
    caller = "evolve" =>
        /\ Len(heap[df_q4]) = Len(q3_at_call)
        /\ \A i \in 1..Len(q3_at_call) :
              /\ \A column \in C21_FrameColumns :
                     heap[df_q4][i][column] = q3_at_call[i][column]
              /\ heap[df_q4][i].reporting_date = REPORTING_Q4
              /\ (/\ pc \in C21_DriftDrawn
                  /\ i \notin Range(deterioration_indices)
                  /\ i \notin Range(improvement_indices))
                     => heap[df_q4][i].credit_score_current
                            = q3_at_call[i].credit_score_current

\* C21 witness: evolve_to_q4 has returned a snapshot in which a loan outside
\* both subsets kept its score while its days_past_due and balance changed,
\* a deteriorated loan lost points and an improved loan gained points, and
\* the input carried the old period date.
C21_Witness ==
    /\ EvolvedReturned
    /\ \A i \in 1..Len(q3_at_call) : q3_at_call[i].reporting_date = REPORTING_Q3
    /\ \E i \in 1..Len(q3_at_call) :
          /\ i \notin Range(deterioration_indices)
          /\ i \notin Range(improvement_indices)
          /\ heap[df_q4][i].credit_score_current = q3_at_call[i].credit_score_current
          /\ heap[df_q4][i].days_past_due # q3_at_call[i].days_past_due
          /\ heap[df_q4][i].outstanding_balance # q3_at_call[i].outstanding_balance
    /\ \E i \in Range(deterioration_indices) :
          heap[df_q4][i].credit_score_current < q3_at_call[i].credit_score_current
    /\ \E i \in Range(improvement_indices) :
          heap[df_q4][i].credit_score_current > q3_at_call[i].credit_score_current

\* the input of the running call carries the stages determine_stage gives its
\* rows, and days_past_due in the bucket set
C22_InputConsistent ==
    /\ HasColumn(q3_at_call, "ifrs9_stage")
    /\ \A i \in 1..Len(q3_at_call) :
          /\ q3_at_call[i].days_past_due \in Range(DpdBuckets)
          /\ q3_at_call[i].ifrs9_stage = determine_stage(q3_at_call[i])

\* C22: when the input snapshot is consistent, no loan that is Stage 3 in the
\* input is Stage 1 in the snapshot one call of evolve_to_q4 returns: such a
\* loan is more than 90 days past due, keeps its days_past_due or is cured
\* to 60, and ends in Stage 3 or Stage 2; and every days_past_due of the
\* output is one of 0, 30, 60, 90, 120, 180.
C22_StageMigrationBound ==
    (EvolvedReturned /\ C22_InputConsistent) =>
        \A i \in 1..Len(q3_at_call) :
            LET before == q3_at_call[i]
                after  == heap[df_q4][i]
            IN  /\ after.days_past_due \in Range(DpdBuckets)
                /\ before.ifrs9_stage = 3 =>
                      /\ before.days_past_due > 90
                      /\ after.ifrs9_stage # 1
                      /\ after.days_past_due \in {before.days_past_due, 60}
                      /\ after.days_past_due = 60 <=> i \in Range(curing)
                      /\ after.days_past_due = 60 => after.ifrs9_stage = 2

\* C22 witness: one call returned a snapshot in which a Stage 3 loan was
\* cured to 60 days and Stage 2, and a loan that entered current and in
\* Stage 1 became delinquent, worsened from 60 to 120 days and left in
\* Stage 3.
C22_Witness ==
    /\ EvolvedReturned
    /\ C22_InputConsistent
    /\ \E i \in 1..Len(q3_at_call) :
          /\ q3_at_call[i].ifrs9_stage = 3
          /\ heap[df_q4][i].days_past_due = 60
          /\ heap[df_q4][i].ifrs9_stage = 2
    /\ \E i \in Range(newly_delinquent) \cap Range(worsening_60) :
          /\ q3_at_call[i].ifrs9_stage = 1
          /\ q3_at_call[i].days_past_due = 0
          /\ heap[df_q4][i].days_past_due = 120
          /\ heap[df_q4][i].ifrs9_stage = 3

\* the loop of autonomous_agent was left, by break, by its test or by a return
C23_LoopLeft == agent_pc \in {"check_results", "analyze", "analysis_rate_limited",
                              "insights", "returned", "raised"}

C23_LastExecuted == executed[Len(executed)]

\* the fix requests that were answered with status 200 and a corrected query
C23_Corrections ==
    {k \in 1..Len(fixes) : fixes[k].status_code = 200 /\ fixes[k].json = "candidates"}

\* at most 3 executions and 2 fix requests; the k-th execution runs the query
\* of the (k-1)-th correction, and every fix request but the last was
\* answered with status 200
C23_Bounded ==
    /\ Len(executed) <= 3
    /\ Len(fixes) <= 2
    /\ Len(executed) <= 1 + Cardinality(C23_Corrections)
    /\ \A k \in 1..Len(executed) :
          /\ executed[k].attempt = k
          /\ executed[k].sql_query = k
          /\ k > 1 => (k - 1) \in C23_Corrections
          /\ k < Len(executed) => executed[k].outcome = QueryFailed
    /\ \A k \in 1..Len(fixes) :
          /\ k <= Len(executed)
          /\ executed[k].outcome = QueryFailed
          /\ k < Len(fixes) => fixes[k].status_code = 200

\* None is returned when the third execution failed and when a fix request
\* was answered with a status other than 200
C23_GivesUp ==
    /\ (Len(executed) = 3 /\ C23_LastExecuted.outcome = QueryFailed)
          => (agent_pc = "returned" /\ result = "None")
    /\ (Len(fixes) > 0 /\ fixes[Len(fixes)].status_code \notin {0, 200})
          => (agent_pc = "returned" /\ result = "None")

\* the loop is left with data only after an execution that succeeded, and an
\* execution that returned no rows is the last one and ends in None
C23_Data ==
    /\ (C23_LoopLeft /\ query_results # None) =>
          /\ Len(executed) > 0
          /\ C23_LastExecuted.outcome = query_results
    /\ result = "dict" =>
          /\ query_results > 0
          /\ C23_LastExecuted.outcome = query_results
    /\ (Len(executed) > 0 /\ C23_LastExecuted.outcome = 0) =>
          \/ agent_pc = "check_results"
          \/ agent_pc = "returned" /\ result = "None"

C23_Terminated == agent_pc \in {"returned", "raised"}

\* C23: autonomous_agent always terminates; it executes the query at most 3
\* times and asks for a fix at most 2 times, re-executing only after a fix
\* answered with status 200; it returns None when the third execution fails
\* or a fix request is answered with another status; it leaves the loop with
\* data only after an execution succeeded; and a successful execution with
\* zero rows is not retried and makes it return None.
C23_AgentLoopTerminates ==
    /\ [](C23_Bounded /\ C23_GivesUp /\ C23_Data)
    /\ <>C23_Terminated

\* C23 witness: the agent returned its dict after two failed executions, two
\* corrections answered with status 200, and a third execution with rows.
C23_Witness ==
    /\ agent_pc = "returned"
    /\ result = "dict"
    /\ Len(executed) = 3
    /\ Len(fixes) = 2
    /\ executed[1].outcome = QueryFailed
    /\ executed[2].outcome = QueryFailed
    /\ executed[3].outcome > 0
    /\ sql_query = 3

====
